---- MODULE Spec2Model ----
(***************************************************************************)
(* OnStar Gen11 GPS decoder (src/onstar_gen11-cli.py, with the GUI copy in *)
(* src/onstar_gen11-gui.py).  The dump is read, marker tokens are located, *)
(* nearby markers are grouped into blocks, every block is parsed into an   *)
(* entry, entries are validated and the accepted ones are written as CSV.  *)
(*                                                                         *)
(* Text is modelled as a length and the key=value tokens it holds, each at *)
(* an offset; everything between tokens is noise no pattern matches.  A    *)
(* character is a number: 0..9 a decimal digit, 10..15 a hex letter,       *)
(* WS whitespace, XX any other character.                                  *)
(*                                                                         *)
(* The window of the GUI copy (OnStarGUI) is modelled with its handlers,   *)
(* its one worker thread and the callbacks the worker hands to the main    *)
(* loop.                                                                   *)
(***************************************************************************)
EXTENDS Integers, Sequences, FiniteSets, TLC

VARIABLES
    variant,        \* which copy of OnStarDecoder runs: "cli" or "gui"
    pc,             \* position inside extract_gps_data
    file,           \* the input file on disk: [status, text]
    out_writable,   \* whether open(output_path, 'w') succeeds
    data,           \* text_data, the latin-1 view of the bytes read
    gps_blocks,     \* the blocks find_gps_blocks_binary returned
    i,              \* index of the next block of the parse loop
    entry,          \* the loop's entry: what parse_gps_block last returned
    parsed_entries, \* the accepted entries, in the order appended
    csvfile,        \* the output file: [exists, rows, footer]
    accepted,       \* history: each accepted entry as it was when appended
    stdout,         \* the lines printed so far (cli)
    result,         \* the (count, error) pair returned (gui)
    progress,       \* the percents passed to progress_callback so far (gui)
    run,            \* how many calls of extract_gps_data have been started
    previous,       \* history: what the call before this one ended with
    is_processing,  \* OnStarGUI.is_processing
    input_file,     \* OnStarGUI.input_file
    buttons,        \* state of process_btn, browse_btn and clear_btn
    progress_bar,   \* self.progress['value']
    results_label,  \* what results_label shows
    after_queue,    \* callbacks handed to root.after(0, ...), oldest first
    workers,        \* threads running process_in_background
    started,        \* how many threads process_file has started
    scheduled       \* history: the terminal callbacks handed to root.after

\* the variables of one call of extract_gps_data and of what it touches
callvars == <<variant, pc, file, out_writable, data, gps_blocks, i, entry, parsed_entries,
              csvfile, accepted, stdout, result, progress>>
\* the calls made so far on the decoder
runvars == <<run, previous>>
\* the window, but for the queue of callbacks
uivars == <<is_processing, input_file, buttons, progress_bar, results_label, workers,
            started, scheduled>>

vars == <<callvars, runvars, uivars, after_queue>>

----------------------------------------------------------------------------
(* Bounds of the model.                                                    *)

\* most tokens in a text of the segmentation inputs
MaxMarkers == 3
\* most blocks in a file of the pipeline inputs
MaxBlocks == 2
\* most calls of extract_gps_data on one file
MaxRuns == 2
\* most worker threads the window starts
MaxStarts == 2

----------------------------------------------------------------------------
(* Python values.                                                          *)

PyNone == [t |-> "None"]
PyStr(s) == [t |-> "str", s |-> s]
PyInt(n) == [t |-> "int", n |-> n]

\* bool(v) as the `not x` of write_csv reads it: '' and 0 are false
Truthy(v) ==
    CASE v.t = "None" -> FALSE
      [] v.t = "str" -> v.s # ""
      [] v.t = "int" -> v.n # 0
      [] OTHER -> TRUE

----------------------------------------------------------------------------
(* Characters and tokens.                                                  *)

WS == 16
XX == 17

\* the classes \d, [0-9A-Fa-f] and [0-9A-Fa-f\s]
DigitChars == 0..9
HexChars == 0..15
HexOrSpaceChars == 0..16

IsHex(c) == c \in HexChars

\* the literal each key ends with that a pattern or a marker can match,
\* besides the key itself
AliasOf(key) ==
    CASE key = "gps_tow" -> "tow"
      [] key = "gps_week" -> "week"
      [] key = "utc_year" -> "year"
      [] key = "utc_month" -> "month"
      [] key = "utc_day" -> "day"
      [] key = "utc_hour" -> "hour"
      [] key = "utc_min" -> "min"
      [] OTHER -> key

Keys == {"gps_tow", "tow", "gps_week", "week", "utc_year", "year",
         "utc_month", "month", "utc_day", "day", "utc_hour", "hour",
         "utc_min", "min", "lat", "lon"}

\* characters a token takes in the text: key, '=', value
TokLen(tok) == Len(tok.key) + 1 + Len(tok.val)

\* tokens lie in offset order inside the text and do not overlap
WellFormedText(text) ==
    /\ \A k \in 1..Len(text.toks) :
          /\ text.toks[k].pos >= 0
          /\ text.toks[k].pos + TokLen(text.toks[k]) <= text.len
    /\ \A k \in 1..(Len(text.toks) - 1) :
          text.toks[k].pos + TokLen(text.toks[k]) <= text.toks[k + 1].pos

\* literal `lit=` occurs in the text at the token, `vis` characters of whose
\* key are visible: the literal is the key or its alias and fits in them
LiteralAt(lit, key, vis) ==
    /\ lit \in {key, AliasOf(key)}
    /\ Len(lit) <= vis

----------------------------------------------------------------------------
(* find_gps_blocks_binary                                                  *)

\* the markers and a field name that is none of them
gps_patterns_and_week == <<"gps_tow", "gps_week", "utc_year", "lat", "lon", "week">>

gps_patterns == <<"gps_tow", "gps_week", "utc_year", "lat", "lon">>

\* start offsets of the matches of one marker, as re.finditer yields them
RECURSIVE FinditerFrom(_, _, _)
FinditerFrom(lit, toks, k) ==
    IF k > Len(toks) THEN <<>>
    ELSE (IF LiteralAt(lit, toks[k].key, Len(toks[k].key))
          THEN <<toks[k].pos + Len(toks[k].key) - Len(lit)>>
          ELSE <<>>) \o FinditerFrom(lit, toks, k + 1)

RECURSIVE CollectPositions(_, _)
CollectPositions(text, p) ==
    IF p > Len(gps_patterns) THEN <<>>
    ELSE FinditerFrom(gps_patterns[p], text.toks, 1) \o CollectPositions(text, p + 1)

\* list.sort()
RECURSIVE InsertSorted(_, _)
InsertSorted(x, s) ==
    IF s = <<>> THEN <<x>>
    ELSE IF x <= Head(s) THEN <<x>> \o s
    ELSE <<Head(s)>> \o InsertSorted(x, Tail(s))

\* the list left in the order the patterns found the offsets
NoSort(s) == s

RECURSIVE ListSort(_)
ListSort(s) == IF s = <<>> THEN <<>> ELSE InsertSorted(Head(s), ListSort(Tail(s)))

KeywordPositions(text) == ListSort(CollectPositions(text, 1))

GroupDistance == 1000
BlockSize == 200
BlockPadding == 50

Max(a, b) == IF a >= b THEN a ELSE b
Min(a, b) == IF a <= b THEN a ELSE b

\* the inner loop's test: the marker is compared with the block's start
NearPreviousMarker(keyword_positions, j, block_start) ==
    keyword_positions[j] - keyword_positions[j - 1] < GroupDistance

NearBlockStart(keyword_positions, j, block_start) ==
    keyword_positions[j] - block_start < GroupDistance

\* an inner loop that takes the nearby markers in and leaves block_end at
\* the first marker's
RECURSIVE ExtendBlockKeepingEnd(_, _, _, _)
ExtendBlockKeepingEnd(keyword_positions, block_start, j, block_end) ==
    IF j <= Len(keyword_positions) /\ NearBlockStart(keyword_positions, j, block_start)
    THEN ExtendBlockKeepingEnd(keyword_positions, block_start, j + 1, block_end)
    ELSE [j |-> j, block_end |-> block_end]

\* the inner while loop: [j, block_end] when it exits
RECURSIVE ExtendBlock(_, _, _, _)
ExtendBlock(keyword_positions, block_start, j, block_end) ==
    IF j <= Len(keyword_positions) /\ NearBlockStart(keyword_positions, j, block_start)
    THEN ExtendBlock(keyword_positions, block_start, j + 1,
                     Max(block_end, keyword_positions[j] + BlockSize))
    ELSE [j |-> j, block_end |-> block_end]

StartPos(block_start) == Max(0, block_start - BlockPadding)

EndPosUnclamped(text_len, block_end) == block_end + BlockPadding

EndPosNoPadding(text_len, block_end) == Min(text_len, block_end)

EndPos(text_len, block_end) == Min(text_len, block_end + BlockPadding)

\* text_data[start_pos:end_pos]: the tokens the slice still shows.  A token
\* cut on the left keeps the last characters of its key; one cut on the right
\* keeps the first characters of its value; a token with its '=' or all of
\* its key cut away is noise.
SliceToks(toks, start_pos, end_pos) ==
    LET Shown(tok) ==
            /\ tok.pos + Len(tok.key) > start_pos
            /\ tok.pos + Len(tok.key) < end_pos
        Cut(tok) ==
            [key |-> tok.key,
             vis |-> Min(Len(tok.key), tok.pos + Len(tok.key) - start_pos),
             val |-> SubSeq(tok.val, 1,
                            Min(Len(tok.val), end_pos - (tok.pos + Len(tok.key) + 1))),
             pos |-> Max(0, tok.pos - start_pos)]
        RECURSIVE Walk(_)
        Walk(k) ==
            IF k > Len(toks) THEN <<>>
            ELSE (IF Shown(toks[k]) THEN <<Cut(toks[k])>> ELSE <<>>) \o Walk(k + 1)
    IN Walk(1)

\* the outer while loop from index i on.  A block is kept with the values the
\* loop held when it was closed; block_text is what the code appends.
RECURSIVE GroupBlocks(_, _, _)
GroupBlocks(text, keyword_positions, k) ==
    IF k > Len(keyword_positions) THEN <<>>
    ELSE LET block_start == keyword_positions[k]
             ext == ExtendBlock(keyword_positions, block_start, k + 1,
                                block_start + BlockSize)
             start_pos == StartPos(block_start)
             end_pos == EndPos(text.len, ext.block_end)
         IN <<[block_start |-> block_start,
               block_end |-> ext.block_end,
               first |-> k,
               last |-> ext.j - 1,
               start_pos |-> start_pos,
               end_pos |-> end_pos,
               block_text |-> SliceToks(text.toks, start_pos, end_pos)]>>
            \o GroupBlocks(text, keyword_positions, ext.j)

FindGpsBlocksBinary(text) ==
    LET keyword_positions == KeywordPositions(text)
    IN IF keyword_positions = <<>> THEN <<>>
       ELSE GroupBlocks(text, keyword_positions, 1)

----------------------------------------------------------------------------
(* extract_number_flexible and extract_hex_flexible                        *)

\* length of the longest run of characters of the class that val starts
\* with, counted from index k on
RECURSIVE PrefixLen(_, _, _)
PrefixLen(val, class, k) ==
    IF k <= Len(val) /\ val[k] \in class THEN PrefixLen(val, class, k + 1) ELSE k - 1

\* int(match.group(1))
RECURSIVE IntOf(_)
IntOf(digits) ==
    IF digits = <<>> THEN 0
    ELSE 10 * IntOf(SubSeq(digits, 1, Len(digits) - 1)) + digits[Len(digits)]

\* a number pattern `lit=(\d+)`, or `lit=(\d{width})` when width > 0
NumPat(lit, width) == [lit |-> lit, width |-> width]

\* group(1) of the pattern matched at the token, or <<>> when it does not
\* match there
NumberCapture(pat, tok) ==
    LET n == PrefixLen(tok.val, DigitChars, 1)
    IN IF ~LiteralAt(pat.lit, tok.key, tok.vis) THEN <<>>
       ELSE IF pat.width = 0 THEN SubSeq(tok.val, 1, n)
       ELSE IF n >= pat.width THEN SubSeq(tok.val, 1, pat.width)
       ELSE <<>>

\* re.search: the capture of the leftmost match in the block, <<>> when none
RECURSIVE SearchNumber(_, _, _)
SearchNumber(pat, text, k) ==
    IF k > Len(text) THEN <<>>
    ELSE IF NumberCapture(pat, text[k]) # <<>> THEN NumberCapture(pat, text[k])
    ELSE SearchNumber(pat, text, k + 1)

RECURSIVE ExtractNumberFrom(_, _, _)
ExtractNumberFrom(text, patterns, p) ==
    IF p > Len(patterns) THEN PyNone
    ELSE IF SearchNumber(patterns[p], text, 1) # <<>>
         THEN PyInt(IntOf(SearchNumber(patterns[p], text, 1)))
    ELSE ExtractNumberFrom(text, patterns, p + 1)

\* the match that comes first in the text, of whichever pattern
RECURSIVE EarliestFrom(_, _, _)
EarliestFrom(text, patterns, k) ==
    IF k > Len(text) THEN PyNone
    ELSE LET hits == {p \in 1..Len(patterns) : NumberCapture(patterns[p], text[k]) # <<>>}
         IN IF hits # {}
            THEN PyInt(IntOf(NumberCapture(patterns[CHOOSE p \in hits : \A q \in hits : p <= q],
                                           text[k])))
            ELSE EarliestFrom(text, patterns, k + 1)

ExtractNumberEarliest(text, patterns) == EarliestFrom(text, patterns, 1)

ExtractNumberFlexible(text, patterns) == ExtractNumberFrom(text, patterns, 1)

\* a hex pattern `lit=([0-9A-Fa-f]{16})`, or `lit=([0-9A-Fa-f\s]{16,})` when
\* spaced
HexPat(lit, spaced) == [lit |-> lit, spaced |-> spaced]

HexLen == 16

HexCapture(pat, tok) ==
    LET n == IF pat.spaced THEN PrefixLen(tok.val, HexOrSpaceChars, 1)
             ELSE PrefixLen(tok.val, HexChars, 1)
    IN IF ~LiteralAt(pat.lit, tok.key, tok.vis) \/ n < HexLen THEN <<>>
       ELSE IF pat.spaced THEN SubSeq(tok.val, 1, n)
       ELSE SubSeq(tok.val, 1, HexLen)

RECURSIVE SearchHex(_, _, _)
SearchHex(pat, text, k) ==
    IF k > Len(text) THEN <<>>
    ELSE IF HexCapture(pat, text[k]) # <<>> THEN HexCapture(pat, text[k])
    ELSE SearchHex(pat, text, k + 1)

\* re.sub(r'[^0-9A-Fa-f]', '', hex_val)
CleanHex(hex_val) == SelectSeq(hex_val, IsHex)

RECURSIVE ExtractHexFrom(_, _, _)
ExtractHexFrom(text, patterns, p) ==
    IF p > Len(patterns) THEN PyNone
    ELSE LET clean_hex == CleanHex(SearchHex(patterns[p], text, 1))
         IN IF Len(clean_hex) >= HexLen
            THEN [t |-> "str", s |-> "hex", chars |-> SubSeq(clean_hex, 1, HexLen)]
            ELSE ExtractHexFrom(text, patterns, p + 1)

ExtractHexFlexible(text, patterns) == ExtractHexFrom(text, patterns, 1)

----------------------------------------------------------------------------
(* GPS time: datetime arithmetic of parse_gps_block                        *)

GpsEpochYear == 1980
GpsEpochMonth == 1
GpsEpochDay == 6

TowMax == 604800000
WeekMax == 4000
SecondsPerWeek == 604800
SecondsPerDay == 86400
MsPerSecond == 1000
NsPerMs == 1000000
NsPerUs == 1000
UsPerSecond == 1000000
UsPerMs == 1000

\* The sum gps_epoch.timestamp() + gps_week * 604800 + gps_tow / 1000.0 is a
\* double below 2^32 reached by two rounded additions, each off by at most
\* half a unit in the last place (2^-22 s): the float differs from the exact
\* sum by less than 2^-21 s, which is 476 ns and a fraction.
MaxFloatErrNs == 476

FloatErrs == {-MaxFloatErrNs, -1, 0, 1, MaxFloatErrNs}

IsLeap(year) == year % 4 = 0 /\ (year % 100 # 0 \/ year % 400 = 0)

DaysInMonth(year, month) ==
    IF month = 2 THEN (IF IsLeap(year) THEN 29 ELSE 28)
    ELSE IF month \in {4, 6, 9, 11} THEN 30 ELSE 31

RECURSIVE DaysBeforeMonth(_, _)
DaysBeforeMonth(year, month) ==
    IF month = 1 THEN 0
    ELSE DaysBeforeMonth(year, month - 1) + DaysInMonth(year, month - 1)

DaysBeforeYear(year) ==
    LET y == year - 1
    IN y * 365 + y \div 4 - y \div 100 + y \div 400

\* date.toordinal
Ymd2Ord(year, month, day) ==
    DaysBeforeYear(year) + DaysBeforeMonth(year, month) + day

DI400Y == DaysBeforeYear(401)
DI100Y == DaysBeforeYear(101)
DI4Y == DaysBeforeYear(5)

\* the calendar date of an ordinal, as datetime computes it
Ord2Ymd(ordinal) ==
    LET n0 == ordinal - 1
        n400 == n0 \div DI400Y
        r400 == n0 % DI400Y
        n100 == r400 \div DI100Y
        r100 == r400 % DI100Y
        n4 == r100 \div DI4Y
        r4 == r100 % DI4Y
        n1 == r4 \div 365
        n == r4 % 365
        year == n400 * 400 + 1 + n100 * 100 + n4 * 4 + n1
        leapyear == n1 = 3 /\ (n4 # 24 \/ n100 = 3)
        est == (n + 50) \div 32
        \* _DAYS_BEFORE_MONTH[m] + (m > 2 and leapyear): year 4 is a leap
        \* year and year 1 is not
        before(m) == DaysBeforeMonth(IF leapyear THEN 4 ELSE 1, m)
        month == IF before(est) > n THEN est - 1 ELSE est
    IN IF n1 = 4 \/ n100 = 4
       THEN [year |-> year - 1, month |-> 12, day |-> 31]
       ELSE [year |-> year, month |-> month, day |-> n - before(month) + 1]

RoundDown(n, unit) == n \div unit

\* round(): to the nearest multiple, halves to the even one
RoundHalfEven(n, unit) ==
    LET q == n \div unit
        r == n % unit
    IN IF 2 * r > unit \/ (2 * r = unit /\ q % 2 = 1) THEN q + 1 ELSE q

\* datetime.fromtimestamp(gps_timestamp, tz=utc).strftime(...)[:-3] for the
\* in-range pair, the float sum being e nanoseconds off the exact one: the
\* fields of the text 'YYYY-mm-dd HH:MM:SS.fff'
FormatGpsTime(gps_tow, gps_week, e) ==
    LET us0 == RoundHalfEven((gps_tow % MsPerSecond) * NsPerMs + e, NsPerUs)
        carry == IF us0 >= UsPerSecond THEN 1 ELSE IF us0 < 0 THEN -1 ELSE 0
        us == us0 - carry * UsPerSecond
        secs == gps_tow \div MsPerSecond + carry
        ordinal == Ymd2Ord(GpsEpochYear, GpsEpochMonth, GpsEpochDay)
                   + gps_week * (SecondsPerWeek \div SecondsPerDay)
                   + secs \div SecondsPerDay
        sod == secs % SecondsPerDay
        ymd == Ord2Ymd(ordinal)
    IN [t |-> "str", s |-> "%Y-%m-%d %H:%M:%S.fff",
        year |-> ymd.year, month |-> ymd.month, day |-> ymd.day,
        hour |-> sod \div 3600, min |-> (sod % 3600) \div 60, sec |-> sod % 60,
        ms |-> us \div UsPerMs]

InGateTowUnbounded(gps_tow, gps_week) ==
    /\ 0 <= gps_tow
    /\ 0 <= gps_week /\ gps_week <= WeekMax

InGate(gps_tow, gps_week) ==
    /\ 0 <= gps_tow /\ gps_tow <= TowMax
    /\ 0 <= gps_week /\ gps_week <= WeekMax

----------------------------------------------------------------------------
(* Coordinates: bytes.fromhex and struct.unpack('<d') of parse_gps_block    *)

\* the 16 hex digits of the double, most significant first: the payload's
\* eight bytes in reverse order
LittleEndianDouble(clean_hex) ==
    [n \in 1..HexLen |->
        clean_hex[2 * (8 - ((n - 1) \div 2)) - 1 + ((n - 1) % 2)]]

\* the double with its sign bit cleared
Magnitude(bits) == [bits EXCEPT ![1] = bits[1] % 8]

\* a <= b for two digit strings of the same length
RECURSIVE DigitsLeq(_, _)
DigitsLeq(a, b) ==
    IF a = <<>> THEN TRUE
    ELSE IF Head(a) # Head(b) THEN Head(a) < Head(b)
    ELSE DigitsLeq(Tail(a), Tail(b))

CoordScale == 10000000
LatLimit == 90
LonLimit == 180

\* the doubles 90 * 10000000.0 and 180 * 10000000.0
LatLimitBits == <<4, 1, 12, 10, 13, 2, 7, 4, 8, 0, 0, 0, 0, 0, 0, 0>>
LonLimitBits == <<4, 1, 13, 10, 13, 2, 7, 4, 8, 0, 0, 0, 0, 0, 0, 0>>

LimitBits(limit) == IF limit = LatLimit THEN LatLimitBits ELSE LonLimitBits

AnyRange(raw, limit) == TRUE

\* -limit <= raw / 10000000.0 <= limit.  Doubles of one sign order as their
\* bit patterns do, a NaN's pattern lies above every number's, and the
\* quotient of the double next above limit * 10000000.0 is above limit: the
\* test holds exactly when the magnitude's pattern is at most the limit's.
InRange(raw, limit) == DigitsLeq(Magnitude(raw), LimitBits(limit))

\* the value stored for a 16-digit payload: lat_raw / 10000000.0
DecodeCoord(clean_hex) ==
    [t |-> "float", raw |-> LittleEndianDouble(clean_hex), scale |-> CoordScale]

----------------------------------------------------------------------------
(* parse_gps_block, is_valid_entry, write_csv                              *)

ERROR == PyStr("ERROR")
PRE2010 == PyStr("INVALID PRE-2010 DATE")

UtcFields == <<"utc_year", "utc_month", "utc_day", "utc_hour", "utc_min">>

OrBlank(v) == IF v # PyNone THEN v ELSE PyStr("")

\* the coordinate branch: `if lat_hex:` ... entry['lat'] = lat_decimal
Coordinate(hex, limit) ==
    IF ~Truthy(hex) THEN ERROR
    ELSE LET clean_hex == CleanHex(hex.chars)
         IN IF Len(clean_hex) = HexLen /\ InRange(LittleEndianDouble(clean_hex), limit)
            THEN DecodeCoord(clean_hex)
            ELSE ERROR

\* the timestamp branch: both values extracted and inside the gates
TimestampTime(gps_tow, gps_week, e) ==
    IF gps_tow # PyNone /\ gps_week # PyNone /\ InGate(gps_tow.n, gps_week.n)
    THEN FormatGpsTime(gps_tow.n, gps_week.n, e)
    ELSE ERROR

\* e: how far the float sum of the timestamp is from the exact sum, in ns
ParseGpsBlock(block_text, e) ==
    LET gps_tow == ExtractNumberFlexible(block_text, <<NumPat("gps_tow", 0), NumPat("tow", 0)>>)
        gps_week == ExtractNumberFlexible(block_text, <<NumPat("gps_week", 0), NumPat("week", 0)>>)
        utc_year == ExtractNumberFlexible(block_text, <<NumPat("utc_year", 0), NumPat("year", 4)>>)
        utc_month == ExtractNumberFlexible(block_text, <<NumPat("utc_month", 0), NumPat("month", 0)>>)
        utc_day == ExtractNumberFlexible(block_text, <<NumPat("utc_day", 0), NumPat("day", 0)>>)
        utc_hour == ExtractNumberFlexible(block_text, <<NumPat("utc_hour", 0), NumPat("hour", 0)>>)
        utc_min == ExtractNumberFlexible(block_text, <<NumPat("utc_min", 0), NumPat("min", 0)>>)
        lat_hex == ExtractHexFlexible(block_text, <<HexPat("lat", FALSE), HexPat("lat", TRUE)>>)
        lon_hex == ExtractHexFlexible(block_text, <<HexPat("lon", FALSE), HexPat("lon", TRUE)>>)
    IN [lat |-> Coordinate(lat_hex, LatLimit),
        long |-> Coordinate(lon_hex, LonLimit),
        utc_year |-> OrBlank(utc_year),
        utc_month |-> OrBlank(utc_month),
        utc_day |-> OrBlank(utc_day),
        utc_hour |-> OrBlank(utc_hour),
        utc_min |-> OrBlank(utc_min),
        timestamp_time |-> TimestampTime(gps_tow, gps_week, e),
        lat_hex |-> IF Truthy(lat_hex) THEN lat_hex ELSE PyStr(""),
        lon_hex |-> IF Truthy(lon_hex) THEN lon_hex ELSE PyStr("")]

HasUtc(ent) ==
    \A k \in 1..Len(UtcFields) : ent[UtcFields[k]] \notin {PyStr(""), PyNone}

IsValidEntryCoordsOnly(ent) ==
    ~(ent.lat = ERROR \/ ent.long = ERROR)

IsValidEntryTimeOnly(ent) ==
    ~(~HasUtc(ent) /\ ent.timestamp_time = ERROR)

IsValidEntryPost2010(ent) ==
    /\ IsValidEntryCoordsOnly(ent)
    /\ IsValidEntryTimeOnly(ent)
    /\ (ent.timestamp_time # ERROR => ent.timestamp_time.year >= 2010)

IsValidEntry(ent) ==
    IF ent = PyNone THEN FALSE
    ELSE IF ent.lat = ERROR \/ ent.long = ERROR THEN FALSE
    ELSE IF ~HasUtc(ent) /\ ent.timestamp_time = ERROR THEN FALSE
    ELSE TRUE

Pre2010Year == 2010

\* `if not entry.get(utc_field)`
BlankUtc(v) == ~Truthy(v)

\* datetime.strptime(ts, '%Y-%m-%d %H:%M:%S.%f') and the year test; only the
\* text strftime produced parses
IsPre2010(ts) == ts.s = "%Y-%m-%d %H:%M:%S.fff" /\ ts.year < Pre2010Year

\* the loop body of write_csv up to writerow: the entry as it is left
Annotate(ent) ==
    LET utc == [f \in {UtcFields[k] : k \in 1..Len(UtcFields)} |->
                    IF BlankUtc(ent[f]) THEN ERROR ELSE ent[f]]
        ts == ent.timestamp_time
    IN [ent EXCEPT !.utc_year = utc["utc_year"],
                     !.utc_month = utc["utc_month"],
                     !.utc_day = utc["utc_day"],
                     !.utc_hour = utc["utc_hour"],
                     !.utc_min = utc["utc_min"],
                     !.timestamp_time =
                         IF Truthy(ts) /\ ts # ERROR /\ IsPre2010(ts) THEN PRE2010 ELSE ts]

\* the dictionary handed to writer.writerow
RowOf(ent) ==
    [f \in {"lat", "long", "utc_year", "utc_month", "utc_day", "utc_hour", "utc_min",
            "timestamp_time", "lat_hex", "lon_hex"} |-> ent[f]]

\* the six blankN keys the cli copy adds to the entry
WithBlanks(ent) ==
    ent @@ [f \in {"blank1", "blank2", "blank3", "blank4", "blank5", "blank6"} |-> PyStr("")]

\* the entries as write_csv leaves them
WrittenEntries(v, entries) ==
    [k \in 1..Len(entries) |->
        IF v = "cli" THEN WithBlanks(Annotate(entries[k])) ELSE Annotate(entries[k])]

\* the rows write_csv writes
WrittenRows(entries) == [k \in 1..Len(entries) |-> RowOf(Annotate(entries[k]))]

----------------------------------------------------------------------------
(* extract_gps_data                                                        *)

\* no bytes read, no output file, nothing returned
NoText == [len |-> 0, toks |-> <<>>]
NoCsv == [exists |-> FALSE, rows |-> <<>>, footer |-> FALSE]
NoResult == [count |-> 0, error |-> PyNone]

Line(text, n) == [line |-> text, n |-> n]

\* progress_callback(status, percent) for each percent of ps.  The gui copy
\* calls it; under the window it is root.after(0, self.update_progress, ...).
Notify(ps) ==
    /\ progress' = IF variant = "gui" THEN progress \o ps ELSE progress
    /\ after_queue' = IF workers > 0
                      THEN after_queue \o [k \in 1..Len(ps) |->
                                              [f |-> "update_progress", percent |-> ps[k]]]
                      ELSE after_queue

\* the percent reported after the i-th of n blocks (i counted from 1)
BlockProgressFromZero(k, n) == 50 + (30 * (k - 1)) \div n

BlockProgress(k, n) == 50 + (30 * k) \div n

\* a read that reports its failure and goes on with no data
ReadStepSwallowingError ==
    /\ pc = "start"
    /\ data' = IF file.status = "ok" THEN file.text ELSE NoText
    /\ pc' = "find"
    /\ stdout' = IF variant = "cli" /\ file.status # "ok"
                 THEN Append(stdout, Line("Error processing file: read", 0))
                 ELSE stdout
    /\ Notify(<<10>>)
    /\ UNCHANGED <<variant, file, out_writable, gps_blocks, i, entry, parsed_entries,
                   csvfile, accepted, result, runvars, uivars>>

\* open(file_path, 'rb') and f.read(); the failures end the run in the
\* except clauses
ReadStep ==
    /\ pc = "start"
    /\ IF file.status = "ok"
       THEN /\ data' = file.text
            /\ pc' = "find"
            /\ UNCHANGED <<stdout, result>>
       ELSE /\ pc' = "done"
            /\ stdout' = IF variant = "cli"
                         THEN Append(stdout,
                                     IF file.status = "missing"
                                     THEN Line("Error: File not found", 0)
                                     ELSE Line("Error processing file: read", 0))
                         ELSE stdout
            /\ result' = IF variant = "gui"
                         THEN [count |-> 0,
                               error |-> IF file.status = "missing"
                                         THEN PyStr("File not found")
                                         ELSE PyStr("Error processing file: read")]
                         ELSE result
            /\ UNCHANGED data
    /\ Notify(<<10>>)
    /\ UNCHANGED <<variant, file, out_writable, gps_blocks, i, entry, parsed_entries,
                   csvfile, accepted, runvars, uivars>>

\* a decoder that keeps the accepted entries from one call to the next
FindStepKeepingEntries ==
    /\ pc = "find"
    /\ gps_blocks' = FindGpsBlocksBinary(data)
    /\ parsed_entries' = parsed_entries
    /\ i' = 1
    /\ pc' = "parse"
    /\ Notify(<<30, 50>>)
    /\ UNCHANGED <<variant, file, out_writable, data, entry, csvfile, accepted, stdout,
                   result, runvars, uivars>>

FindStep ==
    /\ pc = "find"
    /\ gps_blocks' = FindGpsBlocksBinary(data)
    /\ parsed_entries' = <<>>
    /\ i' = 1
    /\ pc' = "parse"
    /\ Notify(<<30, 50>>)
    /\ UNCHANGED <<variant, file, out_writable, data, entry, csvfile, accepted, stdout,
                   result, runvars, uivars>>

\* a loop that gives the whole run up at the first entry it rejects
ParseStepAbortingOnRejection ==
    /\ pc = "parse"
    /\ i <= Len(gps_blocks)
    /\ \E e \in FloatErrs :
          \E parsed \in {ParseGpsBlock(gps_blocks[i].block_text, e)} :
             \E valid \in {IsValidEntry(parsed)} :
                /\ entry' = parsed
                /\ parsed_entries' = IF valid THEN Append(parsed_entries, parsed)
                                     ELSE parsed_entries
                /\ accepted' = IF valid THEN Append(accepted, parsed) ELSE accepted
                /\ pc' = IF valid THEN "parse" ELSE "done"
                /\ i' = IF valid THEN i + 1 ELSE i
                /\ stdout' = IF valid \/ variant = "gui" THEN stdout
                             ELSE Append(stdout, Line("Error processing file: entry", 0))
                /\ result' = IF valid \/ variant = "cli" THEN result
                             ELSE [count |-> 0, error |-> PyStr("Error processing file: entry")]
    /\ Notify(<<BlockProgress(i, Len(gps_blocks))>>)
    /\ UNCHANGED <<variant, file, out_writable, data, gps_blocks, csvfile, runvars, uivars>>

\* one turn of the loop over gps_blocks
ParseStep ==
    /\ pc = "parse"
    /\ i <= Len(gps_blocks)
    /\ \E e \in FloatErrs :
          \E parsed \in {ParseGpsBlock(gps_blocks[i].block_text, e)} :
             \E valid \in {IsValidEntry(parsed)} :
                /\ entry' = parsed
                /\ parsed_entries' = IF valid THEN Append(parsed_entries, parsed)
                                     ELSE parsed_entries
                /\ accepted' = IF valid THEN Append(accepted, parsed) ELSE accepted
    /\ i' = i + 1
    /\ Notify(<<BlockProgress(i, Len(gps_blocks))>>)
    /\ UNCHANGED <<variant, pc, file, out_writable, data, gps_blocks, csvfile,
                   stdout, result, runvars, uivars>>

\* write_csv(parsed_entries, output_csv_path).  When open fails the cli copy
\* prints the error and returns; the gui copy raises, and extract_gps_data
\* returns the error.
WriteStep ==
    /\ pc = "parse"
    /\ i > Len(gps_blocks)
    /\ IF out_writable
       THEN /\ csvfile' = [exists |-> TRUE, rows |-> WrittenRows(parsed_entries),
                           footer |-> TRUE]
            /\ parsed_entries' = WrittenEntries(variant, parsed_entries)
            /\ pc' = "report"
            /\ UNCHANGED <<stdout, result>>
       ELSE /\ UNCHANGED <<csvfile, parsed_entries>>
            /\ IF variant = "cli"
               THEN /\ stdout' = Append(stdout, Line("Error writing CSV: open", 0))
                    /\ pc' = "report"
                    /\ UNCHANGED result
               ELSE /\ result' = [count |-> 0,
                                  error |-> PyStr("Error processing file: Error writing CSV: open")]
                    /\ pc' = "done"
                    /\ UNCHANGED stdout
    /\ Notify(<<90>>)
    /\ UNCHANGED <<variant, file, out_writable, data, gps_blocks, i, entry, accepted,
                   runvars, uivars>>

\* the two prints of the cli copy; the last notification and the return of
\* the gui copy
ReportStep ==
    /\ pc = "report"
    /\ pc' = "done"
    /\ stdout' = IF variant = "cli"
                 THEN stdout \o <<Line("Found valid GPS entries", Len(parsed_entries)),
                                  Line("Results written to", 0)>>
                 ELSE stdout
    /\ result' = IF variant = "gui"
                 THEN [count |-> Len(parsed_entries), error |-> PyNone]
                 ELSE result
    /\ Notify(<<100>>)
    /\ UNCHANGED <<variant, file, out_writable, data, gps_blocks, i, entry,
                   parsed_entries, csvfile, accepted, runvars, uivars>>

Next == ReadStep \/ FindStep \/ ParseStep \/ WriteStep \/ ReportStep

\* what a call left behind when it was over
Outcome ==
    [gps_blocks |-> gps_blocks, parsed_entries |-> parsed_entries, accepted |-> accepted,
     csvfile |-> csvfile, stdout |-> stdout, result |-> result, progress |-> progress]

\* extract_gps_data is called again with the same arguments, on the same
\* decoder or on a new OnStarDecoder(): the only attribute of a decoder is
\* gps_epoch, which __init__ sets to the same date and nothing else assigns.
\* The locals of the call that is over are whatever they were; the new call
\* assigns each before it reads it.
RunAgain ==
    /\ pc = "done"
    /\ run < MaxRuns
    /\ run' = run + 1
    /\ previous' = Outcome
    /\ pc' = "start"
    /\ accepted' = <<>>
    /\ stdout' = <<>>
    /\ result' = NoResult
    /\ progress' = <<>>
    /\ UNCHANGED <<variant, file, out_writable, data, gps_blocks, i, entry, parsed_entries,
                   csvfile, uivars, after_queue>>

NextTwice == Next \/ RunAgain

----------------------------------------------------------------------------
(* Inputs.                                                                 *)

RECURSIVE DigitsOf(_)
DigitsOf(n) == IF n < 10 THEN <<n>> ELSE Append(DigitsOf(n \div 10), n % 10)

RECURSIVE SortedSeqOf(_)
SortedSeqOf(S) ==
    IF S = {} THEN <<>>
    ELSE LET m == CHOOSE x \in S : \A y \in S : x <= y
         IN <<m>> \o SortedSeqOf(S \ {m})

Tok(pos, key, val) == [pos |-> pos, key |-> key, val |-> val]

\* the window as OnStarGUI.__init__ and setup_ui leave it
NoButtons == [process_btn |-> "disabled", browse_btn |-> "normal", clear_btn |-> "disabled"]

NoWindow ==
    /\ is_processing = FALSE
    /\ input_file = PyNone
    /\ buttons = NoButtons
    /\ progress_bar = 0
    /\ results_label = PyStr("")
    /\ after_queue = <<>>
    /\ workers = 0
    /\ started = 0
    /\ scheduled = <<>>

\* the locals of a call of extract_gps_data before its first statement
FreshCall ==
    /\ data = NoText
    /\ gps_blocks = <<>>
    /\ i = 1
    /\ entry = PyNone
    /\ parsed_entries = <<>>
    /\ accepted = <<>>
    /\ result = NoResult
    /\ progress = <<>>

\* the state before extract_gps_data is called on a file
Start(v, f, w) ==
    /\ variant = v
    /\ pc = "start"
    /\ file = f
    /\ out_writable = w
    /\ FreshCall
    /\ csvfile = NoCsv
    /\ stdout = <<>>
    /\ run = 1
    /\ previous = PyNone
    /\ NoWindow

(* Segmentation inputs: up to MaxMarkers tokens at offsets of a grid that   *)
(* holds the distances 999 and 1000 from several starts, starts below and  *)
(* above the padding, and ends below and above block_end + padding.        *)

PosGrid == {0, 30, 50, 60, 800, 999, 1000, 1059, 1060, 1998, 1999, 2010}
SegTails == {4, 249, 250, 251, 400}

\* a token that is no marker, present in some of the texts
SegExtras == {<<>>, <<Tok(500, "utc_month", <<6>>)>>, <<Tok(1500, "week", <<7>>)>>}

RECURSIVE MergeToks(_, _)
MergeToks(a, b) ==
    IF a = <<>> THEN b
    ELSE IF b = <<>> THEN a
    ELSE IF Head(a).pos <= Head(b).pos THEN <<Head(a)>> \o MergeToks(Tail(a), b)
    ELSE <<Head(b)>> \o MergeToks(a, Tail(b))

SegTexts ==
    LET Build(P, extra, tail) ==
            LET ps == SortedSeqOf(P)
                toks == MergeToks([k \in 1..Len(ps) |-> Tok(ps[k], "lat", <<>>)], extra)
            IN [len |-> (IF toks = <<>> THEN 0 ELSE toks[Len(toks)].pos) + tail,
                toks |-> toks]
    IN {text \in UNION {{Build(P, extra, tail) : extra \in SegExtras, tail \in SegTails} :
                        P \in {Q \in SUBSET PosGrid : Cardinality(Q) <= MaxMarkers}} :
            WellFormedText(text)}

InitSeg ==
    \E v \in {"cli", "gui"}, text \in SegTexts :
        Start(v, [status |-> "ok", text |-> text], TRUE)

SpecSeg == InitSeg /\ [][Next]_vars

\* 483200000.0
HexLat4832 == <<0, 0, 0, 0, 0, 0, 0, 0, 0, 12, 12, 13, 11, 12, 4, 1>>
\* 900000000.0
HexLat90 == <<0, 0, 0, 0, 0, 0, 8, 0, 7, 4, 13, 2, 12, 10, 4, 1>>
\* 900000000.0000001
HexLat90Up == <<0, 1, 0, 0, 0, 0, 8, 0, 7, 4, 13, 2, 12, 10, 4, 1>>
\* -900000000.0
HexLatM90 == <<0, 0, 0, 0, 0, 0, 8, 0, 7, 4, 13, 2, 12, 10, 12, 1>>
\* -1224194000.0
HexLon122W == <<0, 0, 0, 0, 0, 0, 15, 4, 14, 13, 3, 13, 13, 2, 12, 1>>
\* 1800000000.0
HexLon180 == <<0, 0, 0, 0, 0, 0, 8, 0, 7, 4, 13, 2, 13, 10, 4, 1>>
\* 1900000000.0
HexLon190 == <<0, 0, 0, 0, 0, 0, 12, 0, 14, 12, 4, 15, 13, 12, 4, 1>>
\* nan
HexNan == <<0, 0, 0, 0, 0, 0, 0, 0, 0, 0, 0, 0, 15, 8, 7, 15>>

\* a payload with whitespace between its two halves, and one cut short
HexLat4832Spaced == SubSeq(HexLat4832, 1, 8) \o <<WS>> \o SubSeq(HexLat4832, 9, 16)
HexShort == SubSeq(HexLat4832, 7, 16) \o <<XX>>


(* Record inputs: one record is up to nine tokens, one per field, laid out  *)
(* in slots from a base offset in the order gps_tow, gps_week, utc_year,    *)
(* utc_month, utc_day, utc_hour, utc_min, lat, lon.  An option of a field   *)
(* is the empty sequence (no token) or one key and value.                   *)

SlotWidth == 40
RecordBase == 100
RecordTail == 260
RecordStride == 1500

Absent == <<>>
Num(key, n) == <<[key |-> key, val |-> DigitsOf(n)]>>
Hex(key, chars) == <<[key |-> key, val |-> chars]>>

RECURSIVE RecordToks(_, _, _)
RecordToks(base, opts, k) ==
    IF k > Len(opts) THEN <<>>
    ELSE (IF opts[k] = Absent THEN <<>>
          ELSE <<Tok(base + (k - 1) * SlotWidth, opts[k][1].key, opts[k][1].val)>>)
         \o RecordToks(base, opts, k + 1)

\* the time pairs: missing values, the gates' ends and the values next to
\* them, the last millisecond of 2009 and the first of 2010, an alias key
TimePairs ==
    {<<Absent, Absent>>,
     <<Num("gps_tow", 0), Absent>>,
     <<Absent, Num("gps_week", 2000)>>,
     <<Num("gps_tow", 0), Num("gps_week", 0)>>,
     <<Num("gps_tow", 0), Num("gps_week", 2000)>>,
     <<Num("gps_tow", 431999999), Num("gps_week", 1564)>>,
     <<Num("gps_tow", 432000000), Num("gps_week", 1564)>>,
     <<Num("gps_tow", 604800000), Num("gps_week", 4000)>>,
     <<Num("gps_tow", 604800001), Num("gps_week", 2000)>>,
     <<Num("gps_tow", 0), Num("gps_week", 4001)>>,
     <<Num("tow", 86399999), Num("gps_week", 2086)>>,
     <<Num("gps_tow", 5025), Num("week", 2000)>>}

YearOpts == {Absent, Num("utc_year", 2021)}
MonthOpts == {Absent, Num("utc_month", 6)}
DayOpts == {Absent, Num("utc_day", 15)}
HourOpts == {Absent, Num("utc_hour", 0), Num("utc_hour", 10)}
MinOpts == {Absent, Num("utc_min", 30)}

CoordPairs ==
    {<<Hex("lat", HexLat4832), Hex("lon", HexLon122W)>>,
     <<Absent, Hex("lon", HexLon122W)>>,
     <<Hex("lat", HexLat4832), Absent>>,
     <<Hex("lat", HexLat90), Hex("lon", HexLon180)>>,
     <<Hex("lat", HexLatM90), Hex("lon", HexLon190)>>,
     <<Hex("lat", HexLat90Up), Hex("lon", HexLon122W)>>,
     <<Hex("lat", HexNan), Hex("lon", HexLon122W)>>,
     <<Hex("lat", HexLat4832Spaced), Hex("lon", HexLon122W)>>,
     <<Hex("lat", HexShort), Hex("lon", HexLon122W)>>}

RecordOpts ==
    {<<tp[1], tp[2], y, mo, d, h, mi, c[1], c[2]>> :
        tp \in TimePairs, y \in YearOpts, mo \in MonthOpts, d \in DayOpts,
        h \in HourOpts, mi \in MinOpts, c \in CoordPairs}

ParseTexts ==
    {[len |-> RecordBase + 9 * SlotWidth + RecordTail,
      toks |-> RecordToks(RecordBase, opts, 1)] : opts \in RecordOpts}

InitParse == \E text \in ParseTexts : Start("cli", [status |-> "ok", text |-> text], TRUE)

SpecParse == InitParse /\ [][Next]_vars

(* Alias inputs: one block that starts with a latitude and a longitude and  *)
(* holds, for each of gps_tow, gps_week and utc_year, up to two tokens in   *)
(* two slots: the field's own name, its short name, both in either order,   *)
(* twice the same name, a name with no digit after it, a short year of two  *)
(* and of five digits.                                                      *)

NoDigits(key) == <<[key |-> key, val |-> <<>>]>>

TowSlots ==
    {<<Absent, Absent>>,
     <<Num("gps_tow", 5), Absent>>,
     <<Num("tow", 7), Absent>>,
     <<Num("tow", 7), Num("gps_tow", 5)>>,
     <<Num("gps_tow", 5), Num("tow", 7)>>,
     <<Num("gps_tow", 5), Num("gps_tow", 6)>>,
     <<Num("tow", 7), Num("tow", 8)>>,
     <<NoDigits("gps_tow"), Num("tow", 7)>>}

WeekSlots ==
    {<<Absent, Absent>>,
     <<Num("gps_week", 2000), Absent>>,
     <<Num("week", 2001), Absent>>,
     <<Num("week", 2001), Num("gps_week", 2000)>>,
     <<Num("gps_week", 2000), Num("week", 2001)>>}

YearSlots ==
    {<<Absent, Absent>>,
     <<Num("utc_year", 2021), Absent>>,
     <<Num("year", 1999), Absent>>,
     <<Num("year", 1999), Num("utc_year", 2021)>>,
     <<Num("utc_year", 2021), Num("year", 1999)>>,
     <<Num("year", 99), Absent>>,
     <<Num("year", 99), Num("year", 20056)>>}

AliasOpts ==
    {<<Hex("lat", HexLat4832), Hex("lon", HexLon122W), t[1], t[2], w[1], w[2], y[1], y[2]>> :
        t \in TowSlots, w \in WeekSlots, y \in YearSlots}

AliasTexts ==
    {[len |-> RecordBase + 8 * SlotWidth + RecordTail,
      toks |-> RecordToks(RecordBase, opts, 1)] : opts \in AliasOpts}

InitAlias == \E text \in AliasTexts : Start("cli", [status |-> "ok", text |-> text], TRUE)

SpecAlias == InitAlias /\ [][Next]_vars

(* Pipeline inputs: a file of up to MaxBlocks records, each one of a few    *)
(* samples, RecordStride apart; the file may be missing or unreadable and   *)
(* the destination may refuse to open.                                      *)

\* complete, midnight hour, timestamp in 2018
RecordMidnight ==
    <<Num("gps_tow", 0), Num("gps_week", 2000), Num("utc_year", 2021), Num("utc_month", 6),
      Num("utc_day", 15), Num("utc_hour", 0), Num("utc_min", 30),
      Hex("lat", HexLat4832), Hex("lon", HexLon122W)>>

\* timestamp before 2010, one UTC component missing
RecordPre2010 ==
    <<Num("gps_tow", 431999999), Num("gps_week", 1564), Num("utc_year", 2021), Absent,
      Num("utc_day", 15), Num("utc_hour", 10), Num("utc_min", 30),
      Hex("lat", HexLat4832), Hex("lon", HexLon122W)>>

\* all five UTC components, no GPS pair
RecordUtcOnly ==
    <<Absent, Absent, Num("utc_year", 2021), Num("utc_month", 6),
      Num("utc_day", 15), Num("utc_hour", 10), Num("utc_min", 30),
      Hex("lat", HexLat4832), Hex("lon", HexLon122W)>>

\* three of five UTC components, no GPS pair
RecordUtcPartial ==
    <<Absent, Absent, Num("utc_year", 2021), Num("utc_month", 6),
      Num("utc_day", 15), Absent, Absent,
      Hex("lat", HexLat4832), Hex("lon", HexLon122W)>>

\* longitude out of range
RecordLonOut ==
    <<Num("gps_tow", 0), Num("gps_week", 2000), Num("utc_year", 2021), Num("utc_month", 6),
      Num("utc_day", 15), Num("utc_hour", 10), Num("utc_min", 30),
      Hex("lat", HexLat4832), Hex("lon", HexLon190)>>

SampleRecords == {RecordMidnight, RecordPre2010, RecordUtcOnly, RecordUtcPartial, RecordLonOut}

RECURSIVE FileToks(_, _)
FileToks(records, k) ==
    IF k > Len(records) THEN <<>>
    ELSE RecordToks(RecordBase + (k - 1) * RecordStride, records[k], 1)
         \o FileToks(records, k + 1)

\* the file that holds the records one after the other
TextOf(records) ==
    [len |-> Len(records) * RecordStride + RecordBase, toks |-> FileToks(records, 1)]

PipelineTexts ==
    {TextOf(records) : records \in UNION {[1..n -> SampleRecords] : n \in 0..MaxBlocks}}

Init ==
    \E v \in {"cli", "gui"}, status \in {"ok", "missing", "unreadable"},
       w \in BOOLEAN, text \in PipelineTexts :
        Start(v, [status |-> status, text |-> text], w)

Spec == Init /\ [][Next]_vars

SpecTwice == Init /\ [][NextTwice]_vars

\* A call that has not returned takes its next statement: extract_gps_data is
\* straight-line code around a loop over a finite list, run by one thread
\* that nothing blocks.  Every step of the call changes pc or i and a step
\* is possible exactly until the call is over, so the fairness is stated on
\* those two variables.
Advance ==
    /\ pc \in {"start", "find", "parse", "report"}
    /\ pc' \in {"find", "parse", "report", "done"}
    /\ i' \in {1, i, i + 1}

SpecFair == Init /\ [][Next]_vars /\ WF_<<pc, i>>(Advance)

----------------------------------------------------------------------------
(* OnStarGUI: the handlers of the window, the worker thread and the        *)
(* callbacks it hands to the main loop.  Handlers and callbacks run on the *)
(* main thread, one at a time; the worker runs extract_gps_data of the gui *)
(* copy, step by step, between them.                                       *)

\* the files the user can pick, and what each holds
Paths == {"a.CE0", "b.CE0"}

Disk(path) ==
    IF path = "a.CE0" THEN TextOf(<<RecordMidnight, RecordUtcPartial>>) ELSE TextOf(<<>>)

AllDisabled == [process_btn |-> "disabled", browse_btn |-> "disabled", clear_btn |-> "disabled"]
AllNormal == [process_btn |-> "normal", browse_btn |-> "normal", clear_btn |-> "normal"]

set_input_file(file_path) ==
    /\ input_file' = PyStr(file_path)
    /\ buttons' = [buttons EXCEPT !.process_btn = "normal", !.clear_btn = "normal"]

\* the dialog returns a path, or '' when it is cancelled
browse_file ==
    /\ \E file_path \in Paths \cup {""} :
          IF is_processing \/ file_path = ""
          THEN UNCHANGED <<input_file, buttons>>
          ELSE set_input_file(file_path)
    /\ UNCHANGED <<callvars, runvars, is_processing, progress_bar, results_label, workers,
                   started, scheduled, after_queue>>

clear_file ==
    /\ IF is_processing
       THEN UNCHANGED <<input_file, buttons, progress_bar, results_label>>
       ELSE /\ input_file' = PyNone
            /\ buttons' = [buttons EXCEPT !.process_btn = "disabled",
                                          !.clear_btn = "disabled"]
            /\ progress_bar' = 0
            /\ results_label' = PyStr("")
    /\ UNCHANGED <<callvars, runvars, is_processing, workers, started, scheduled,
                   after_queue>>

\* something is dropped on the window: a path, which may be no file
on_file_drop ==
    /\ \E file_path \in Paths, isfile \in BOOLEAN :
          IF is_processing \/ ~isfile
          THEN UNCHANGED <<input_file, buttons>>
          ELSE set_input_file(file_path)
    /\ UNCHANGED <<callvars, runvars, is_processing, progress_bar, results_label, workers,
                   started, scheduled, after_queue>>

\* thread.start(): the worker is about to call extract_gps_data on the file,
\* which may be gone by now, for a destination that may not open
StartWorker ==
    /\ workers' = workers + 1
    /\ started' = started + 1
    /\ run' = run + 1
    /\ pc' = "start"
    /\ \E status \in {"ok", "missing"} : file' = [status |-> status, text |-> Disk(input_file.s)]
    /\ out_writable' \in BOOLEAN
    /\ data' = NoText
    /\ gps_blocks' = <<>>
    /\ i' = 1
    /\ entry' = PyNone
    /\ parsed_entries' = <<>>
    /\ accepted' = <<>>
    /\ result' = NoResult
    /\ progress' = <<>>

\* a handler that starts a worker whether or not one is running
process_file_unguarded ==
    /\ started < MaxStarts
    /\ IF ~Truthy(input_file)
       THEN UNCHANGED <<callvars, run, is_processing, buttons, workers, started>>
       ELSE /\ is_processing' = TRUE
            /\ buttons' = AllDisabled
            /\ StartWorker
            /\ UNCHANGED <<variant, csvfile, stdout>>
    /\ UNCHANGED <<previous, input_file, progress_bar, results_label, scheduled, after_queue>>

process_file ==
    /\ started < MaxStarts
    /\ IF ~Truthy(input_file) \/ is_processing
       THEN UNCHANGED <<callvars, run, is_processing, buttons, workers, started>>
       ELSE /\ is_processing' = TRUE
            /\ buttons' = AllDisabled
            /\ StartWorker
            /\ UNCHANGED <<variant, csvfile, stdout>>
    /\ UNCHANGED <<previous, input_file, progress_bar, results_label, scheduled, after_queue>>

\* the end of process_in_background, after extract_gps_data has returned:
\* one callback is handed to root.after and the thread is over
process_in_background ==
    /\ pc = "done"
    /\ workers > 0
    /\ \E cb \in {IF Truthy(result.error)
                  THEN [f |-> "processing_error", error_msg |-> result.error]
                  ELSE [f |-> "processing_complete", entry_count |-> result.count]} :
          /\ after_queue' = Append(after_queue, cb)
          /\ scheduled' = Append(scheduled, cb)
    /\ pc' = "idle"
    /\ workers' = workers - 1
    /\ UNCHANGED <<variant, file, out_writable, data, gps_blocks, i, entry, parsed_entries,
                   csvfile, accepted, stdout, result, progress, runvars, is_processing,
                   input_file, buttons, progress_bar, results_label, started>>

update_progress(percent) ==
    /\ progress_bar' = percent
    /\ UNCHANGED <<is_processing, buttons, results_label>>

processing_complete(entry_count) ==
    /\ is_processing' = FALSE
    /\ buttons' = AllNormal
    /\ progress_bar' = 100
    /\ results_label' = [t |-> "str", s |-> "Successfully extracted", n |-> entry_count]

\* a callback that shows the error and leaves the flag set
processing_error_still_busy(error_msg) ==
    /\ is_processing' = is_processing
    /\ buttons' = AllNormal
    /\ progress_bar' = 0
    /\ results_label' = [t |-> "str", s |-> "Error", msg |-> error_msg]

processing_error(error_msg) ==
    /\ is_processing' = FALSE
    /\ buttons' = AllNormal
    /\ progress_bar' = 0
    /\ results_label' = [t |-> "str", s |-> "Error", msg |-> error_msg]

\* root.mainloop() runs the oldest callback handed to root.after(0, ...)
mainloop ==
    /\ after_queue # <<>>
    /\ after_queue' = Tail(after_queue)
    /\ \E cb \in {Head(after_queue)} :
          CASE cb.f = "update_progress" -> update_progress(cb.percent)
            [] cb.f = "processing_complete" -> processing_complete(cb.entry_count)
            [] cb.f = "processing_error" -> processing_error(cb.error_msg)
    /\ UNCHANGED <<callvars, runvars, input_file, workers, started, scheduled>>

NextGui ==
    \/ browse_file \/ clear_file \/ on_file_drop \/ process_file
    \/ ReadStep \/ FindStep \/ ParseStep \/ WriteStep \/ ReportStep
    \/ process_in_background
    \/ mainloop

\* the window after OnStarGUI(root): no file chosen, no worker
InitGui ==
    /\ variant = "gui"
    /\ pc = "idle"
    /\ file = [status |-> "missing", text |-> NoText]
    /\ out_writable = TRUE
    /\ FreshCall
    /\ csvfile = NoCsv
    /\ stdout = <<>>
    /\ run = 0
    /\ previous = PyNone
    /\ NoWindow

SpecGui == InitGui /\ [][NextGui]_vars

\* The worker thread is not blocked by the main thread: it takes its next
\* statement and, the call over, hands its callback over; the main loop runs
\* the callbacks handed to it.
SpecGuiFair ==
    /\ SpecGui
    /\ WF_<<pc, i>>(Advance)
    /\ WF_vars(process_in_background)
    /\ WF_vars(mainloop)

----------------------------------------------------------------------------
(* Properties.                                                             *)

\* the blocks have been found
Found == pc \in {"parse", "report", "done"} /\ file.status = "ok"

\* the loop has parsed a block and holds its entry
Parsed == pc = "parse" /\ i > 1

Formatted(ts) == ts.s = "%Y-%m-%d %H:%M:%S.fff"

AllUtcInt(ent) == \A k \in 1..Len(UtcFields) : ent[UtcFields[k]].t = "int"

\* the acceptance rule in the record's own terms: both coordinates are numbers
\* and the time is known from the five UTC components or from the timestamp
Acceptable(ent) ==
    /\ ent.lat.t = "float"
    /\ ent.long.t = "float"
    /\ (AllUtcInt(ent) \/ Formatted(ent.timestamp_time))

\* C1: a turn of the parse loop appends the entry to the accepted entries if
\* and only if both its coordinates decoded and either all five UTC
\* components are present or its timestamp converted; nothing else is appended.
C1_AcceptedIffCoordsAndTime ==
    [][(pc = "parse" /\ i' = i + 1) =>
          /\ (accepted' = Append(accepted, entry')) <=> Acceptable(entry')
          /\ (accepted' = accepted) <=> ~Acceptable(entry')]_vars

\* a record with both coordinates and all five UTC components and no GPS pair
\* was accepted with its timestamp unparseable
C1_Witness ==
    /\ Parsed
    /\ accepted = <<entry>>
    /\ entry.timestamp_time = ERROR
    /\ AllUtcInt(entry)
    /\ \A k \in 1..Len(gps_blocks[i - 1].block_text) :
          gps_blocks[i - 1].block_text[k].key \notin {"gps_tow", "tow", "gps_week", "week"}

\* the marker offsets of the text that was read, in ascending order
Markers == KeywordPositions(data)

\* C2: the blocks split the sorted marker offsets into consecutive runs that
\* cover them all, each offset in exactly one run; every marker of a run is
\* less than 1000 characters after the run's first marker, and the marker that
\* opens the next run is 1000 or more after it.  So markers 999 apart share a
\* block and markers 1000 apart do not.
C2_GreedyRunsFromBlockStart ==
    Found =>
       /\ (Markers = <<>>) <=> (gps_blocks = <<>>)
       /\ gps_blocks # <<>> =>
             /\ gps_blocks[1].first = 1
             /\ gps_blocks[Len(gps_blocks)].last = Len(Markers)
       /\ \A b \in 1..Len(gps_blocks) :
             /\ gps_blocks[b].first <= gps_blocks[b].last
             /\ gps_blocks[b].block_start = Markers[gps_blocks[b].first]
             /\ \A m \in gps_blocks[b].first..gps_blocks[b].last :
                   Markers[m] - gps_blocks[b].block_start < 1000
             /\ b < Len(gps_blocks) =>
                   /\ gps_blocks[b + 1].first = gps_blocks[b].last + 1
                   /\ Markers[gps_blocks[b + 1].first] - gps_blocks[b].block_start >= 1000

\* a marker exactly 1000 after a block's start opened a new block, and a
\* marker 999 after that block's start was absorbed into it
C2_Witness ==
    /\ Found
    /\ \E b \in 1..(Len(gps_blocks) - 1) :
          /\ gps_blocks[b + 1].block_start - gps_blocks[b].block_start = 1000
          /\ gps_blocks[b + 1].last > gps_blocks[b + 1].first
          /\ Markers[gps_blocks[b + 1].last] - gps_blocks[b + 1].block_start = 999

\* C3: the span emitted for a block runs from max(0, s - 50) to
\* min(text length, e + 50), s the block's first marker and e the greatest of
\* s + 200 and p + 200 over its markers p (the last marker's p + 200); a block
\* of one marker at least 50 from the start and 250 from the end of the text
\* is 300 wide; no span leaves the text.
C3_SpanPaddedAndClamped ==
    Found =>
       \A b \in 1..Len(gps_blocks) :
          LET s == Markers[gps_blocks[b].first]
              e == Markers[gps_blocks[b].last] + 200
          IN /\ gps_blocks[b].block_end = e
             /\ \A m \in gps_blocks[b].first..gps_blocks[b].last : e >= Markers[m] + 200
             /\ gps_blocks[b].start_pos = (IF s - 50 < 0 THEN 0 ELSE s - 50)
             /\ gps_blocks[b].end_pos = (IF e + 50 > data.len THEN data.len ELSE e + 50)
             /\ 0 <= gps_blocks[b].start_pos
             /\ gps_blocks[b].start_pos < gps_blocks[b].end_pos
             /\ gps_blocks[b].end_pos <= data.len
             /\ (gps_blocks[b].first = gps_blocks[b].last /\ s >= 50 /\ data.len - s >= 250) =>
                   gps_blocks[b].end_pos - gps_blocks[b].start_pos = 300

\* one block of a single marker is 300 wide and another is cut at the end of
\* the text, and one is cut at its start
C3_Witness ==
    /\ Found
    /\ \E b \in 1..Len(gps_blocks) :
          /\ gps_blocks[b].first = gps_blocks[b].last
          /\ gps_blocks[b].end_pos - gps_blocks[b].start_pos = 300
    /\ \E b \in 1..Len(gps_blocks) :
          /\ gps_blocks[b].end_pos = data.len
          /\ gps_blocks[b].block_end + 50 > data.len
    /\ \E b \in 1..Len(gps_blocks) :
          /\ gps_blocks[b].start_pos = 0
          /\ gps_blocks[b].block_start < 50

\* the spans [start_pos, end_pos) of blocks a and b share an offset
Overlap(a, b) ==
    /\ gps_blocks[a].start_pos < gps_blocks[b].end_pos
    /\ gps_blocks[b].start_pos < gps_blocks[a].end_pos

\* C4 as stated: no text offset lies in the spans of two blocks
C4_SpansNeverOverlap ==
    Found => \A a, b \in 1..Len(gps_blocks) : a # b => ~Overlap(a, b)

\* C4: no marker belongs to two blocks, and the spans of two blocks share
\* text exactly when the later block's first marker is less than 300
\* characters after the earlier block's last marker.
C4_OverlapOnlyWithin300 ==
    Found =>
       \A a, b \in 1..Len(gps_blocks) :
          a < b =>
             /\ gps_blocks[a].last < gps_blocks[b].first
             /\ Overlap(a, b) <=>
                   Markers[gps_blocks[b].first] - Markers[gps_blocks[a].last] < 300

\* two blocks whose spans share text
C4_Witness ==
    /\ Found
    /\ \E a, b \in 1..Len(gps_blocks) : a < b /\ Overlap(a, b)

\* what extract_number_flexible finds for the two GPS values in the block
\* the loop has just parsed
TowFound == ExtractNumberFlexible(gps_blocks[i - 1].block_text,
                                  <<NumPat("gps_tow", 0), NumPat("tow", 0)>>)
WeekFound == ExtractNumberFlexible(gps_blocks[i - 1].block_text,
                                   <<NumPat("gps_week", 0), NumPat("week", 0)>>)

\* C5: the entry carries a timestamp exactly when gps_tow and gps_week were
\* both extracted with 0 <= gps_tow <= 604800000 and 0 <= gps_week <= 4000;
\* with a value missing or outside its gate the timestamp is the ERROR text,
\* the value being neither wrapped nor clamped into the gate.
C5_TimestampOnlyInsideGates ==
    Parsed =>
       /\ Formatted(entry.timestamp_time) <=>
             /\ TowFound.t = "int" /\ WeekFound.t = "int"
             /\ 0 <= TowFound.n /\ TowFound.n <= 604800000
             /\ 0 <= WeekFound.n /\ WeekFound.n <= 4000
       /\ ~Formatted(entry.timestamp_time) => entry.timestamp_time = ERROR

\* gps_tow = 604800001 was extracted beside a week inside its gate and the
\* timestamp stayed ERROR
C5_Witness ==
    /\ Parsed
    /\ TowFound = PyInt(604800001)
    /\ WeekFound.t = "int" /\ WeekFound.n <= 4000
    /\ entry.timestamp_time = ERROR

\* C6: a timestamp the entry carries is a calendar date and time of day that
\* lies gps_week * 7 days and gps_tow milliseconds after 1980-01-06 00:00:00,
\* to the millisecond; week 2000 with gps_tow 0 is 2018-05-06 00:00:00.000,
\* 14000 days after the epoch.
C6_TimestampIsEpochPlusWeekAndTow ==
    (Parsed /\ Formatted(entry.timestamp_time)) =>
       LET ts == entry.timestamp_time
           tow == TowFound.n
           week == WeekFound.n
       IN /\ ts.month \in 1..12
          /\ ts.day \in 1..DaysInMonth(ts.year, ts.month)
          /\ ts.hour \in 0..23 /\ ts.min \in 0..59 /\ ts.sec \in 0..59 /\ ts.ms \in 0..999
          /\ Ymd2Ord(ts.year, ts.month, ts.day) - Ymd2Ord(1980, 1, 6)
                = week * 7 + (tow \div 1000) \div 86400
          /\ ts.hour * 3600 + ts.min * 60 + ts.sec = (tow \div 1000) % 86400
          /\ ts.ms = tow % 1000
          /\ (week = 2000 /\ tow = 0) =>
                /\ <<ts.year, ts.month, ts.day>> = <<2018, 5, 6>>
                /\ <<ts.hour, ts.min, ts.sec, ts.ms>> = <<0, 0, 0, 0>>

\* week 2000 with gps_tow 0 was converted
C6_Witness ==
    /\ Parsed
    /\ Formatted(entry.timestamp_time)
    /\ TowFound = PyInt(0)
    /\ WeekFound = PyInt(2000)
    /\ entry.timestamp_time.year = 2018

\* the payloads of the inputs whose scaled value is inside its range, and
\* those whose scaled value is outside it or no number
\* the double 483200000.0, 0x41BCCD0C00000000: latitude 48.32
Double483200000 == <<4, 1, 11, 12, 12, 13, 0, 12, 0, 0, 0, 0, 0, 0, 0, 0>>

InsideLat == {HexLat4832, HexLat90, HexLatM90}
InsideLon == {HexLon122W, HexLon180}
OutsidePayloads == {HexLat90Up, HexNan, HexLon190}

\* C7: a coordinate of the entry is either the ERROR text or the payload's
\* double over 10,000,000 with the double's magnitude at most 90 * 10^7 for
\* latitude and 180 * 10^7 for longitude; a payload that is missing, malformed
\* or out of range leaves ERROR; an entry with ERROR in either coordinate is
\* not accepted, so every accepted entry has both coordinates in range.
C7_CoordinatesInRangeOrRejected ==
    Parsed =>
       /\ \A c \in {<<"lat", "lat_hex", LatLimitBits, InsideLat>>,
                    <<"long", "lon_hex", LonLimitBits, InsideLon>>} :
             /\ entry[c[1]] # ERROR =>
                   /\ entry[c[1]].t = "float"
                   /\ entry[c[1]].scale = 10000000
                   /\ entry[c[2]].s = "hex"
                   /\ entry[c[2]].chars = HexLat4832 => entry[c[1]].raw = Double483200000
                   /\ DigitsLeq(Magnitude(entry[c[1]].raw), c[3])
                   /\ entry[c[2]].chars \notin OutsidePayloads
             /\ entry[c[2]] = PyStr("") => entry[c[1]] = ERROR
             /\ (entry[c[2]].s = "hex" /\ entry[c[2]].chars \in c[4]) =>
                   entry[c[1]] # ERROR
       /\ (entry.lat = ERROR \/ entry.long = ERROR) =>
             \A k \in 1..Len(accepted) : accepted[k] # entry
       /\ \A k \in 1..Len(accepted) :
             /\ accepted[k].lat.t = "float"
             /\ accepted[k].long.t = "float"
             /\ DigitsLeq(Magnitude(accepted[k].lat.raw), LatLimitBits)
             /\ DigitsLeq(Magnitude(accepted[k].long.raw), LonLimitBits)

\* a latitude payload just above 90 was extracted, its field stayed ERROR and
\* the record, complete otherwise, was rejected
C7_Witness ==
    /\ Parsed
    /\ entry.lat_hex.s = "hex" /\ entry.lat_hex.chars = HexLat90Up
    /\ entry.lat = ERROR
    /\ entry.long # ERROR
    /\ AllUtcInt(entry)
    /\ Formatted(entry.timestamp_time)
    /\ accepted = <<>>

\* C8 as stated: in the rows written, a UTC component is the text ERROR
\* exactly when it was missing in the accepted entry, and a component that
\* was extracted as an integer, 0 included, is written as that integer
C8_ErrorExactlyWhenMissing ==
    csvfile.exists =>
       /\ Len(csvfile.rows) = Len(accepted)
       /\ \A k \in 1..Len(accepted) :
             \A f \in 1..Len(UtcFields) :
                /\ (csvfile.rows[k][UtcFields[f]] = ERROR)
                      <=> (accepted[k][UtcFields[f]] = PyStr(""))
                /\ accepted[k][UtcFields[f]].t = "int" =>
                      csvfile.rows[k][UtcFields[f]] = accepted[k][UtcFields[f]]

\* the blocks parsed so far whose entry meets the acceptance rule
AcceptableBlocks == {k \in 1..(i - 1) : Acceptable(ParseGpsBlock(gps_blocks[k].block_text, 0))}

\* C9: the timestamp's year decides nothing before write_csv: the accepted
\* entries are those of the blocks that meet the acceptance rule, whatever
\* their year, and none carries the pre-2010 text while the loop runs; when
\* write_csv has written, there is one row for each accepted entry, in order,
\* and a row's timestamp is the pre-2010 text exactly when the entry's
\* timestamp was converted and its year is below 2010, and the entry's
\* timestamp otherwise.
C9_Pre2010AnnotatesNeverRejects ==
    Found =>
       /\ Len(accepted) = Cardinality(AcceptableBlocks)
       /\ pc = "parse" =>
             /\ parsed_entries = accepted
             /\ \A k \in 1..Len(parsed_entries) : parsed_entries[k].timestamp_time # PRE2010
       /\ csvfile.exists =>
             /\ Len(csvfile.rows) = Len(accepted)
             /\ \A k \in 1..Len(accepted) :
                   LET ts == accepted[k].timestamp_time
                   IN /\ (csvfile.rows[k].timestamp_time = PRE2010)
                            <=> (Formatted(ts) /\ ts.year < 2010)
                      /\ csvfile.rows[k].timestamp_time # PRE2010 =>
                            csvfile.rows[k].timestamp_time = ts
                      /\ csvfile.rows[k].lat = accepted[k].lat
                      /\ csvfile.rows[k].long = accepted[k].long

\* a record with a timestamp in 2009 and a UTC component missing was accepted
\* and written, with the pre-2010 text
C9_Witness ==
    /\ csvfile.exists
    /\ \E k \in 1..Len(accepted) :
          /\ Formatted(accepted[k].timestamp_time)
          /\ accepted[k].timestamp_time.year = 2009
          /\ accepted[k].utc_month = PyStr("")
          /\ csvfile.rows[k].timestamp_time = PRE2010

\* C10 as stated: a run whose destination could not be opened ends with the
\* error and its cause, and with no count of entries and no 'results
\* written' message
C10_WriteFailureNeverReportsSuccess ==
    (pc = "done" /\ file.status = "ok" /\ ~out_writable) =>
       IF variant = "cli"
       THEN /\ \E k \in 1..Len(stdout) : stdout[k].line = "Error writing CSV: open"
            /\ \A k \in 1..Len(stdout) :
                  stdout[k].line \notin {"Found valid GPS entries", "Results written to"}
       ELSE result.error = PyStr("Error processing file: Error writing CSV: open")

\* the outcome of a call that failed, with its cause: the line the cli copy
\* printed, the error string the gui copy returned with a count of 0
ErrorOutcome(cause) ==
    IF variant = "cli"
    THEN stdout = <<Line(cause, 0)>>
    ELSE result.count = 0 /\ result.error.t = "str"

\* C11: when the input file is missing or unreadable the call ends at its
\* first step with an error outcome: nothing is read, no block is found or
\* parsed, nothing is accepted, write_csv is not reached (no 'Error writing
\* CSV', no count, no 'Results written to') and the output file is as it was
\* before the call.
C11_UnreadableInputAbortsBeforeAnyStage ==
    file.status # "ok" =>
       /\ pc \in {"start", "done"}
       /\ data = NoText
       /\ gps_blocks = <<>>
       /\ entry = PyNone
       /\ parsed_entries = <<>> /\ accepted = <<>>
       /\ csvfile = NoCsv
       /\ progress \in {<<>>, <<10>>}
       /\ pc = "start" => stdout = <<>> /\ result = NoResult
       /\ pc = "done" =>
             /\ file.status = "missing" =>
                   /\ ErrorOutcome("Error: File not found")
                   /\ variant = "gui" => result.error = PyStr("File not found")
             /\ file.status = "unreadable" =>
                   /\ ErrorOutcome("Error processing file: read")
                   /\ variant = "gui" => result.error = PyStr("Error processing file: read")

\* a call on a missing file that holds records, over
C11_Witness ==
    /\ pc = "done"
    /\ file.status = "missing"
    /\ Len(file.text.toks) > 0
    /\ csvfile = NoCsv
    /\ out_writable

\* C12: on a readable file every turn of the parse loop goes on to the next
\* block, whether the entry was accepted or not and whatever fields it
\* lacks; the loop is left only for write_csv, after the last block, with
\* exactly the accepted entries; and every call on a readable file gets
\* there.
C12_EveryBlockParsedThenWritten ==
    /\ [][(pc = "parse" /\ i <= Len(gps_blocks)) =>
             /\ pc' = "parse"
             /\ i' = i + 1
             /\ gps_blocks' = gps_blocks
             /\ entry' = ParseGpsBlock(gps_blocks[i].block_text, 0)]_vars
    /\ [][(pc = "parse" /\ pc' # "parse") =>
             /\ i = Len(gps_blocks) + 1
             /\ parsed_entries = accepted
             /\ Len(accepted) = Cardinality(AcceptableBlocks)
             /\ out_writable => csvfile'.exists /\ Len(csvfile'.rows) = Len(accepted)]_vars
    /\ (file.status = "ok" /\ pc = "start") ~> (pc \in {"report", "done"})

\* a call went past a rejected first block, accepted the second and reached
\* the write stage
C12_Witness ==
    /\ pc = "report"
    /\ Len(gps_blocks) = 2
    /\ ~Acceptable(ParseGpsBlock(gps_blocks[1].block_text, 0))
    /\ Len(accepted) = 1
    /\ csvfile.exists /\ Len(csvfile.rows) = 1

\* the offsets of the tokens of a text that start with one of the five marker
\* words
MarkerOffsets(text) ==
    {text.toks[k].pos : k \in {n \in 1..Len(text.toks) :
        text.toks[n].key \in {"gps_tow", "gps_week", "utc_year", "lat", "lon"}}}

\* the entries of the first n blocks that meet the acceptance rule, in the
\* order of the blocks
RECURSIVE AcceptedOf(_)
AcceptedOf(n) ==
    IF n = 0 THEN <<>>
    ELSE LET ent == ParseGpsBlock(gps_blocks[n].block_text, 0)
         IN IF Acceptable(ent) THEN Append(AcceptedOf(n - 1), ent) ELSE AcceptedOf(n - 1)

\* C13: the blocks are in strictly increasing order of their start offset,
\* each starts at a marker and every marker of the text is in a block that
\* starts at or before it; the accepted entries are, in that same order, the
\* entries of the blocks parsed so far that passed validation, at most one
\* for a block, whatever their timestamps; and the rows written are in the
\* order of the accepted entries.
C13_AcceptedInDiscoveryOrder ==
    Found =>
       /\ \A k \in 1..Len(gps_blocks) :
             /\ gps_blocks[k].block_start \in MarkerOffsets(data)
             /\ k > 1 => gps_blocks[k - 1].block_start < gps_blocks[k].block_start
       /\ \A p \in MarkerOffsets(data) :
             \E k \in 1..Len(gps_blocks) :
                /\ gps_blocks[k].block_start <= p
                /\ p < gps_blocks[k].block_start + GroupDistance
                /\ k < Len(gps_blocks) => p < gps_blocks[k + 1].block_start
       /\ accepted = AcceptedOf(i - 1)
       /\ Len(accepted) <= i - 1
       /\ csvfile.exists =>
             /\ Len(csvfile.rows) = Len(accepted)
             /\ \A k \in 1..Len(accepted) :
                   /\ csvfile.rows[k].lat_hex = accepted[k].lat_hex
                   /\ csvfile.rows[k].lon_hex = accepted[k].lon_hex
                   /\ csvfile.rows[k].utc_year = accepted[k].utc_year

\* two records were accepted and written, the first with a timestamp in
\* 2018, the second with a timestamp in 2009
C13_Witness ==
    /\ csvfile.exists
    /\ Len(accepted) = 2
    /\ Formatted(accepted[1].timestamp_time) /\ accepted[1].timestamp_time.year = 2018
    /\ Formatted(accepted[2].timestamp_time) /\ accepted[2].timestamp_time.year = 2009
    /\ csvfile.rows[1].timestamp_time = accepted[1].timestamp_time
    /\ csvfile.rows[2].timestamp_time = PRE2010

\* C14: a call of extract_gps_data that follows another on the same file
\* ends as that one ended: the same blocks, the same accepted entries in the
\* same order, the same rows in the output file, the same lines printed
\* and the same pair returned.
C14_SecondRunRepeatsFirst ==
    (run > 1 /\ pc = "done") =>
       /\ gps_blocks = previous.gps_blocks
       /\ accepted = previous.accepted
       /\ parsed_entries = previous.parsed_entries
       /\ csvfile = previous.csvfile
       /\ stdout = previous.stdout
       /\ result = previous.result
       /\ progress = previous.progress

\* a second call on a file of two different records, both accepted, is over
C14_Witness ==
    /\ run = 2
    /\ pc = "done"
    /\ Len(accepted) = 2
    /\ accepted[1] # accepted[2]
    /\ csvfile.exists
    /\ previous.accepted = accepted

\* C15 as stated: when write_csv has written, the accepted entries hold the
\* field values they held when is_valid_entry accepted them, and no other
\* fields
C15_AcceptedEntriesUnchangedByWrite ==
    csvfile.exists => parsed_entries = accepted

\* C16: when the text read holds none of the five marker words,
\* find_gps_blocks_binary returns no block, nothing is parsed or accepted,
\* the file written has no row, and the call ends with a count of zero:
\* 'Found 0 valid GPS entries.' printed (cli), (0, None) returned (gui).
C16_NoMarkerNoBlockNoRecord ==
    (Found /\ MarkerOffsets(data) = {}) =>
       /\ gps_blocks = <<>>
       /\ entry = PyNone
       /\ parsed_entries = <<>> /\ accepted = <<>>
       /\ csvfile.exists => csvfile.rows = <<>>
       /\ pc = "done" =>
             IF variant = "cli"
             THEN stdout = <<Line("Found valid GPS entries", 0), Line("Results written to", 0)>>
             ELSE result = [count |-> 0, error |-> PyNone]

\* a call on a text that holds a field token but no marker is over
C16_Witness ==
    /\ pc = "done"
    /\ file.status = "ok"
    /\ Len(data.toks) > 0
    /\ MarkerOffsets(data) = {}
    /\ gps_blocks = <<>>
    /\ csvfile.exists

\* the tokens of a block at which `name=` stands followed by at least n
\* decimal digits; the short name also stands at the end of the long one
StandsAt(block_text, names, n) ==
    {k \in 1..Len(block_text) :
        /\ block_text[k].key \in names
        /\ block_text[k].vis = Len(block_text[k].key)
        /\ Len(block_text[k].val) >= n
        /\ \A d \in 1..n : block_text[k].val[d] \in 0..9}

\* what the priority rule gives for a field with the long name `long`, the
\* short name `short` and the width `width` of the short pattern (0: any):
\* the digits after the first occurrence of the long name if there is one,
\* else those after the first occurrence of the short name, else nothing
ByPriority(block_text, long, short, width) ==
    LET canon == StandsAt(block_text, {long}, 1)
        alias == StandsAt(block_text, {long, short}, IF width = 0 THEN 1 ELSE width)
        First(S) == CHOOSE k \in S : \A m \in S : k <= m
    IN IF canon # {} THEN PyInt(IntOf(block_text[First(canon)].val))
       ELSE IF alias # {}
            THEN PyInt(IntOf(IF width = 0 THEN block_text[First(alias)].val
                             ELSE SubSeq(block_text[First(alias)].val, 1, width)))
       ELSE PyNone

\* C17: the value of a field is the one after the first occurrence of the
\* field's own name when that occurs in the block, even after an occurrence
\* of the short name; the short name is used only when the own name is
\* followed by digits nowhere in the block; with neither the field is
\* missing: the UTC year is blank, the timestamp is unparseable, and the
\* entry is still produced.
C17_CanonicalPatternBeforeAlias ==
    Parsed =>
       LET block_text == gps_blocks[i - 1].block_text
           tow == ByPriority(block_text, "gps_tow", "tow", 0)
           week == ByPriority(block_text, "gps_week", "week", 0)
           year == ByPriority(block_text, "utc_year", "year", 4)
       IN /\ TowFound = tow
          /\ WeekFound = week
          /\ entry.utc_year = (IF year = PyNone THEN PyStr("") ELSE year)
          /\ entry.timestamp_time =
                (IF tow = PyNone \/ week = PyNone THEN ERROR
                 ELSE FormatGpsTime(tow.n, week.n, 0))

\* a block with tow=7 before gps_tow=5 and year=1999 before utc_year=2021 was
\* parsed: the time of week is 5 ms and the year 2021
C17_Witness ==
    /\ Parsed
    /\ \E a, b, c, d \in 1..Len(gps_blocks[i - 1].block_text) :
          LET block_text == gps_blocks[i - 1].block_text
          IN /\ a < b /\ c < d
             /\ block_text[a].key = "tow" /\ block_text[a].val = <<7>>
             /\ block_text[b].key = "gps_tow" /\ block_text[b].val = <<5>>
             /\ block_text[c].key = "year" /\ block_text[d].key = "utc_year"
    /\ Formatted(entry.timestamp_time) /\ entry.timestamp_time.ms = 5
    /\ entry.utc_year = PyInt(2021)

\* a callback that ends a run is waiting in the main loop's queue
TerminalPending ==
    \E k \in 1..Len(after_queue) : after_queue[k].f \in {"processing_complete", "processing_error"}

\* C18: there is never more than one worker; is_processing is true from the
\* start of a worker until the main loop has run the callback that ends its
\* run, and only then; and while is_processing is true no handler starts a
\* worker or changes input_file.
C18_OneWorkerAndFileKeptWhileProcessing ==
    /\ [](/\ workers \in {0, 1}
          /\ is_processing <=> (workers = 1 \/ TerminalPending)
          /\ workers = 1 => ~TerminalPending
          /\ workers = 1 <=> pc # "idle"
          /\ is_processing => Truthy(input_file) /\ file.text = Disk(input_file.s))
    /\ [][is_processing => /\ input_file' = input_file
                           /\ started' = started
                           /\ workers' <= workers]_vars
    /\ [][started' # started => /\ ~is_processing /\ is_processing'
                                /\ started' = started + 1
                                /\ workers = 0 /\ workers' = 1]_vars

\* the second worker is parsing the file chosen, with the callbacks of its
\* first notifications still waiting
C18_Witness ==
    /\ is_processing
    /\ workers = 1
    /\ started = 2
    /\ pc = "parse" /\ i = 2
    /\ input_file = PyStr("a.CE0")
    /\ Len(after_queue) >= 3

\* C19: a worker that is over has handed exactly one callback to the main
\* loop, processing_complete with the count when extract_gps_data returned
\* no error and processing_error with the error otherwise; the main loop,
\* running it, clears is_processing and sets the three buttons to normal;
\* and whenever is_processing is true it is false again later, with the
\* buttons normal.
C19_EveryWorkerEndsInOneCallback ==
    /\ [](Len(scheduled) = started - workers)
    /\ [][workers' < workers =>
             /\ Len(scheduled') = Len(scheduled) + 1
             /\ after_queue' = Append(after_queue, scheduled'[Len(scheduled')])
             /\ IF result.error = PyNone
                THEN scheduled'[Len(scheduled')] =
                        [f |-> "processing_complete", entry_count |-> Len(accepted)]
                ELSE scheduled'[Len(scheduled')] =
                        [f |-> "processing_error", error_msg |-> result.error]]_vars
    /\ [][(TerminalPending /\ ~TerminalPending') =>
             /\ ~is_processing'
             /\ buttons' = AllNormal
             /\ workers' = 0]_vars
    /\ [](is_processing => <>(~is_processing /\ buttons = AllNormal))

\* two workers have run, the first ended in processing_error and the second
\* in processing_complete, and the window is ready again
C19_Witness ==
    /\ started = 2
    /\ Len(scheduled) = 2
    /\ scheduled[1].f = "processing_error"
    /\ scheduled[2].f = "processing_complete" /\ scheduled[2].entry_count = 1
    /\ after_queue = <<>>
    /\ ~is_processing
    /\ buttons = AllNormal

\* the notifications of a complete run over n blocks, in order
Milestones(n) == <<10, 30, 50>> \o [k \in 1..n |-> 50 + (30 * k) \div n] \o <<90, 100>>

\* how many of them have been emitted at each point of the run
Emitted ==
    CASE pc = "start" -> 0
      [] pc = "find" -> 1
      [] pc = "parse" -> 3 + (i - 1)
      [] pc = "report" -> 3 + Len(gps_blocks) + 1
      [] pc = "done" /\ file.status # "ok" -> 1
      [] pc = "done" /\ result.error # PyNone -> 3 + Len(gps_blocks) + 1
      [] OTHER -> 3 + Len(gps_blocks) + 2

\* C20: at every point of a run of the gui copy the notifications emitted so
\* far are the first ones of the list 10, 30, 50, one value 50 + 30*k div n
\* for each of the n blocks in turn, 90, 100, as far as the run has come;
\* they never decrease; the values of the blocks lie in 50..80 and the last
\* block's is 80; and 100 has been emitted only when write_csv has written
\* the file and the run returns no error.
C20_ProgressMilestonesInOrder ==
    variant = "gui" =>
       /\ progress = SubSeq(Milestones(Len(gps_blocks)), 1, Emitted)
       /\ \A k \in 1..(Len(progress) - 1) : progress[k] <= progress[k + 1]
       /\ \A k \in 4..Len(progress) :
             k <= 3 + Len(gps_blocks) =>
                /\ progress[k] \in 50..80
                /\ k = 3 + Len(gps_blocks) => progress[k] = 80
       /\ (\E k \in 1..Len(progress) : progress[k] = 100) =>
             /\ progress[Len(progress)] = 100
             /\ pc = "done"
             /\ csvfile.exists
             /\ result = [count |-> Len(accepted), error |-> PyNone]
       /\ (pc = "done" /\ result.error = PyNone) => progress[Len(progress)] = 100

\* a run over two blocks is over: 65 after the first block, 80 after the
\* second
C20_Witness ==
    /\ variant = "gui"
    /\ pc = "done"
    /\ progress = <<10, 30, 50, 65, 80, 90, 100>>

\* C21: every marker of the text is assigned to one block, and the span
\* [start_pos, end_pos) emitted for that block holds the marker's offset p and
\* ends no earlier than p + 250 or the end of the text, whichever comes
\* first; the marker's key stands whole in the block's text, at offset
\* p - start_pos.
C21_MarkerInsideItsBlockSpan ==
    Found =>
       /\ {Markers[m] : m \in 1..Len(Markers)} = MarkerOffsets(data)
       /\ \A m \in 1..Len(Markers) :
             \E b \in 1..Len(gps_blocks) :
                /\ gps_blocks[b].first <= m /\ m <= gps_blocks[b].last
                /\ \A c \in 1..Len(gps_blocks) :
                      (gps_blocks[c].first <= m /\ m <= gps_blocks[c].last) => c = b
                /\ gps_blocks[b].start_pos <= Markers[m]
                /\ Markers[m] < gps_blocks[b].end_pos
                /\ gps_blocks[b].end_pos >=
                      (IF Markers[m] + 250 > data.len THEN data.len ELSE Markers[m] + 250)
                /\ \E k \in 1..Len(gps_blocks[b].block_text) :
                      /\ gps_blocks[b].block_text[k].pos =
                            Markers[m] - gps_blocks[b].start_pos
                      /\ gps_blocks[b].block_text[k].vis = Len(gps_blocks[b].block_text[k].key)

\* a block of several markers, the last 999 after the first, in a text that
\* goes on for more than 250 characters after it; and a block whose last
\* marker is less than 250 from the end of the text
C21_Witness ==
    /\ Found
    /\ \E b \in 1..Len(gps_blocks) :
          /\ gps_blocks[b].last > gps_blocks[b].first
          /\ Markers[gps_blocks[b].last] - Markers[gps_blocks[b].first] = 999
          /\ gps_blocks[b].end_pos = Markers[gps_blocks[b].last] + 250
          /\ gps_blocks[b].end_pos < data.len
    /\ \E b \in 1..Len(gps_blocks) :
          /\ gps_blocks[b].end_pos = data.len
          /\ data.len < Markers[gps_blocks[b].last] + 250

====
